---- MODULE Spec2Model ----
(***************************************************************************)
(* The lint runners of sqlfluff (src/sqlfluff/core/linter/runner.py):      *)
(* get_runner, SequentialRunner, ParallelRunner with its two pool kinds    *)
(* (MultiProcessRunner / MultiThreadRunner) and DelayedException.          *)
(*                                                                         *)
(* One behaviour is one call of get_runner followed by one call of         *)
(* run(fnames, fix) whose result generator is driven by a caller.          *)
(***************************************************************************)
EXTENDS Integers, Sequences, FiniteSets, TLC

\* ---------------------------------------------------------------- bounds
NumFiles == 3
MaxParallel == 2

\* ----------------------------------------------------------------- state
VARIABLES
    request,     \* arguments of get_runner and the runtime: parallel, allow, py37
    fix,         \* the fix flag given to run
    runner,      \* "none" | "Sequential" | "MultiThread" | "MultiProcess"
    pc,          \* where the controller (the run generator and its caller) is
    nextRender,  \* index in fnames of the next file iter_rendered renders
    genDone,     \* iter_partials is exhausted (or has raised)
    taskq,       \* pool: tasks handed to the pool, not yet taken by a worker
    workers,     \* pool: per worker, its state and the task it is executing
    outq,        \* pool: finished items not yet returned by the map iterator
    ctlIndex,    \* pool: number of items the map iterator has returned
    cur,         \* lint_result held by the controller inside the loop body
    pool,        \* "none" | "running" | "terminated"
    yielded,     \* the result stream seen by the caller, in order
    warnings,    \* linter_logger.warning calls, in order
    printed,     \* the keyboard-interrupt message was printed
    outcome,     \* "running" | "returned" | "raised" | "closed"
    raisedExc,   \* the exception that left run (NoExc when none)
    interrupt,   \* "none" | "handled" | "unhandled" and where it arrived
    execs,       \* per file, the outcomes of the executions of its partial
    linter_formatter, \* linter.formatter: None or Some("formatter")
    reported,    \* formatter.dispatch_file_violations calls of the controller
    renders,     \* the calls of render_file / get_ruleset so far, in order
    built,       \* the work units iter_partials has yielded so far, in order
    meta         \* the segment model: the live meta segment and the last call

vars == <<request, fix, runner, pc, nextRender, genDone, taskq, workers, outq,
          ctlIndex, cur, pool, yielded, warnings, printed, outcome, raisedExc,
          interrupt, execs, linter_formatter, reported, renders, built, meta>>

\* ------------------------------------------------------------ input data
\* fnames: the input list, a file is named by its position
fnames == [i \in 1..NumFiles |-> i]
Files == 1..NumFiles
\* Python's None is the empty option, a present value x is Some(x)
None == {}
Some(x) == {x}
ParallelValues == (0 - 1)..MaxParallel

NoExc == [type |-> "none", msg |-> None]
NoItem == [kind |-> "none"]

\* An exception object: its class and its message (the message of a failure
\* on file f names f).
Exc(type, f) == [type |-> type, msg |-> f]

\* A traceback: the frames from the handler down to the raise. A frame made
\* by the interpreter holds its locals; one rebuilt by tblib does not.
Frame(fn) == [fn |-> fn, live |-> TRUE]
NoTb == << >>

\* ------------------------------------------- external collaborators (§6)
\* linter.render_file(fname, config): the rendered file carries the file's
\* own effective configuration, which varies per file.
FileConfig(f) == (f % 2) + 1
render_file(fname, config) == [fname |-> fname, config |-> FileConfig(fname)]

\* linter.get_ruleset(config): the rules the configuration selects.
get_ruleset(config) == [config |-> config, rules |-> 1..(config + 1)]

\* linter.lint_rendered(rendered, rule_set, fix, formatter) -> LintedFile.
lint_rendered(rendered, rule_set, fix_, formatter_) ==
    [kind |-> "result",
     path |-> rendered.fname,
     violations |-> {r \in rule_set.rules :
                        /\ (r + rendered.fname) % 3 # 0
                        /\ fix_ => r % 2 = 0}]

\* ------------------------------------------------------ Work-Unit Builder
\* A runner family in which every runner passes the formatter.
pass_formatter_always(r) == TRUE

\* BaseRunner.pass_formatter / ParallelRunner.pass_formatter
pass_formatter(r) == r = "Sequential"

\* The n-th file of the loop of iter_rendered.
iter_rendered_reversed(n) == fnames[NumFiles + 1 - n]

iter_rendered(n) == fnames[n]

\* get_ruleset returns a new object at every call: the object made by the
\* call for file fname is told apart by instance.
fresh_ruleset(config, fname) == get_ruleset(config) @@ [instance |-> fname]

\* One item of iter_partials: (fname, functools.partial(lint_rendered, ...)),
\* the rule-set built from the rendered file's own config.
partial_tuple_shared_ruleset(r, lf, fname, fix_) ==
    LET rendered == render_file(fname, "runner_config")
        rule_set == fresh_ruleset(rendered.config, 0)
    IN  [fname |-> fname,
         partial |-> [rendered |-> rendered,
                      rule_set |-> rule_set,
                      fix |-> fix_,
                      formatter |-> IF pass_formatter(r) THEN lf ELSE None]]

partial_tuple(r, lf, fname, fix_) ==
    LET rendered == render_file(fname, "runner_config")
        rule_set == fresh_ruleset(rendered.config, fname)
    IN  [fname |-> fname,
         partial |-> [rendered |-> rendered,
                      rule_set |-> rule_set,
                      fix |-> fix_,
                      formatter |-> IF pass_formatter(r) THEN lf ELSE None]]

\* Calling the partial when the lint itself does not raise.
call_partial(p) == lint_rendered(p.rendered, p.rule_set, p.fix, p.formatter)

\* traceback.format_exc() inside a handler: the frames' names and the
\* exception's class and message, as text.
format_exc(e, tb) ==
    [frames |-> [i \in 1..Len(tb) |-> tb[i].fn], type |-> e.type, msg |-> e.msg]

\* BaseRunner._handle_lint_path_exception(fname, e), called inside the
\* handler of e whose traceback is tb: IOError is raised again, anything
\* else is logged as a warning.
handle_raise_all(fname, e, tb) ==
    [raise |-> TRUE, warning |-> << >>]

handle_log_all(fname, e, tb) ==
    [raise |-> FALSE,
     warning |-> << [kind |-> "lint", fname |-> fname,
                     trace |-> format_exc(e, tb)] >>]

_handle_lint_path_exception(fname, e, tb) ==
    IF e.type = "IOError"
    THEN [raise |-> TRUE, warning |-> << >>]
    ELSE [raise |-> FALSE,
          warning |-> << [kind |-> "lint", fname |-> fname,
                          trace |-> format_exc(e, tb)] >>]

\* ----------------------------------------------------------- get_runner
get_runner_nowarn(parallel, allow_process_parallelism, py37) ==
    IF parallel > 1 /\ py37
    THEN IF allow_process_parallelism
         THEN [runner |-> "MultiProcess", warn |-> FALSE]
         ELSE [runner |-> "MultiThread", warn |-> FALSE]
    ELSE [runner |-> "Sequential", warn |-> FALSE]

\* get_runner: the runner class chosen and whether the "not supported"
\* warning is logged.
get_runner(parallel, allow_process_parallelism, py37) ==
    IF parallel > 1 /\ py37
    THEN IF allow_process_parallelism
         THEN [runner |-> "MultiProcess", warn |-> FALSE]
         ELSE [runner |-> "MultiThread", warn |-> FALSE]
    ELSE [runner |-> "Sequential", warn |-> parallel > 1]

\* ----------------------------------------------------- DelayedException
\* DelayedException.__init__(ee, fname): exc_tb is what sys.exc_info()
\* gives where the constructor runs, str_ee is str(ee).
DelayedException(ee, str_ee, fname, exc_tb) ==
    [kind |-> "delayed", ee |-> ee, tb |-> exc_tb, fname |-> None,
     args |-> <<str_ee>>]

\* DelayedException.reraise(), called from run: raise ee.with_traceback(tb);
\* the raise adds the frames it unwinds through.
reraise(d) ==
    [exc |-> d.ee, tb |-> <<Frame("run"), Frame("reraise")>> \o d.tb]

\* tblib.pickling_support.install() has run when sqlfluff.core is imported.
tblib_installed == TRUE

\* Pickling a traceback with tblib: the frames' names survive, their
\* locals do not.
pickle_tb_dropped(tb) == NoTb

pickle_tb(tb) == [i \in 1..Len(tb) |-> [fn |-> tb[i].fn, live |-> FALSE]]

\* pickle.dumps of what _apply returns. An exception pickles as its class
\* and args plus its __dict__; a traceback pickles only with tblib.
pickle(v) ==
    IF v.kind = "delayed"
    THEN IF tblib_installed \/ v.tb = NoTb
         THEN [cls |-> "DelayedException", args |-> v.args,
               state |-> [ee |-> v.ee, tb |-> pickle_tb(v.tb), fname |-> v.fname]]
         ELSE [cls |-> "unpicklable"]
    ELSE [cls |-> "LintedFile", state |-> v]

unpickle_fresh(p) ==
    IF p.cls = "DelayedException"
    THEN LET fresh == DelayedException(p.args[1], p.args[1], None, NoTb)
         IN  [fresh EXCEPT !.ee = p.state.ee, !.tb = p.state.tb,
                           !.fname = p.state.fname]
    ELSE [kind |-> "result", path |-> p.state.path, violations |-> {}]

\* pickle.loads in the controller: the class is called with args (so
\* __init__ runs there, outside any handler), then __dict__ is restored.
unpickle(p) ==
    IF p.cls = "DelayedException"
    THEN LET fresh == DelayedException(p.args[1], p.args[1], None, NoTb)
         IN  [fresh EXCEPT !.ee = p.state.ee, !.tb = p.state.tb,
                           !.fname = p.state.fname]
    ELSE p.state

\* ParallelRunner._apply(partial_tuple) in a worker, lo the outcome of the
\* lint: what _apply returns (the result, or the exception wrapped at the
\* point of failure); raised tells whether an exception left _apply.
LintExcType(lo) == IF lo = "io" THEN "IOError" ELSE "ValueError"

_apply_no_catch(pt, lo) ==
    IF lo = "ok"
    THEN [raised |-> FALSE, value |-> call_partial(pt.partial)]
    ELSE [raised |-> TRUE, value |-> Exc(LintExcType(lo), pt.fname)]

_apply(pt, lo) ==
    IF lo = "ok"
    THEN [raised |-> FALSE, value |-> call_partial(pt.partial)]
    ELSE [raised |-> FALSE,
          value |-> DelayedException(Exc(LintExcType(lo), pt.fname), pt.fname,
                                     Some(pt.fname),
                                     <<Frame("_apply"), Frame("lint_rendered")>>)]

\* ------------------------------------------------------------------ Init
\* no meta segment is alive and nothing was called on one
NoSeg == [cls |-> "none"]
NoCall == [op |-> "none"]
MetaIdle == [seg |-> NoSeg, out |-> NoCall]

RenderOutcomes == {"ok", "soft", "io", "ruleset"}
LintOutcomes == {"ok", "soft", "io"}
IsParallel == runner \in {"MultiThread", "MultiProcess"}
MAP_FUNCTION_NAME_imap == "imap"
MAP_FUNCTION_NAME_unordered == "imap_unordered"
\* MultiProcessRunner.MAP_FUNCTION_NAME / MultiThreadRunner.MAP_FUNCTION_NAME
MAP_FUNCTION_NAME == IF runner = "MultiProcess" THEN "imap_unordered" ELSE "imap"

Init ==
    /\ request \in [parallel : ParallelValues, allow : BOOLEAN, py37 : BOOLEAN]
    /\ fix \in BOOLEAN
    /\ linter_formatter \in {None, Some("formatter")}
    /\ runner = "none"
    /\ pc = "new"
    /\ nextRender = 1
    /\ genDone = FALSE
    /\ taskq = << >>
    /\ workers = << >>
    /\ outq = << >>
    /\ ctlIndex = 0
    /\ cur = NoItem
    /\ pool = "none"
    /\ yielded = << >>
    /\ warnings = << >>
    /\ printed = FALSE
    /\ outcome = "running"
    /\ raisedExc = NoExc
    /\ interrupt = [state |-> "none", at |-> "none"]
    /\ execs = [f \in Files |-> << >>]
    /\ reported = << >>
    /\ renders = << >>
    /\ built = << >>
    /\ meta = MetaIdle

\* ----------------------------------------------------------- get_runner
GetRunner ==
    /\ pc = "new"
    /\ LET r == get_runner(request.parallel, request.allow, request.py37)
       IN  /\ runner' = r.runner
           /\ warnings' = IF r.warn
                           THEN Append(warnings, [kind |-> "unsupported"])
                           ELSE warnings
    /\ pc' = "start"
    /\ UNCHANGED <<request, fix, nextRender, genDone, taskq, workers, outq,
                   ctlIndex, cur, pool, yielded, printed, outcome, raisedExc,
                   interrupt, execs, linter_formatter, reported, renders,
                   built, meta>>

\* ------------------------------------------------------ the run's ending
\* An exception leaves run; leaving the with block terminates the pool.
Raise(e) ==
    /\ outcome' = "raised"
    /\ raisedExc' = e
    /\ pc' = "done"
    /\ pool' = IF pool = "running" THEN "terminated" ELSE pool

\* ------------------------------------------------------ SequentialRunner
SeqStart ==
    /\ pc = "start"
    /\ runner = "Sequential"
    /\ pc' = "running"
    /\ UNCHANGED <<request, fix, runner, nextRender, genDone, taskq, workers,
                   outq, ctlIndex, cur, pool, yielded, warnings, printed,
                   outcome, raisedExc, interrupt, execs, linter_formatter,
                   reported, renders,
                   built, meta>>

\* One turn of the loop of SequentialRunner.run: iter_partials renders the
\* next file and builds its rule-set (outside the try), then partial() is
\* called inside the try.
SeqStep ==
    /\ pc = "running"
    /\ runner = "Sequential"
    /\ nextRender <= NumFiles
    /\ LET fname == iter_rendered(nextRender)
           pt == partial_tuple(runner, linter_formatter, fname, fix)
       IN  \E ro \in RenderOutcomes :
           /\ renders' = Append(renders, [fname |-> fname, outcome |-> ro])
           /\ built' = IF ro = "ok" THEN Append(built, pt) ELSE built
           /\ \/ /\ ro # "ok"
                 /\ Raise(Exc(IF ro = "io" THEN "IOError" ELSE "ValueError", fname))
                 /\ UNCHANGED <<yielded, warnings, execs>>
              \/ /\ ro = "ok"
                 /\ \E lo \in LintOutcomes :
                    /\ execs' = [execs EXCEPT ![fname] = Append(@, lo)]
                    /\ IF lo = "ok"
                       THEN /\ yielded' = Append(yielded, call_partial(pt.partial))
                            /\ pc' = "suspended"
                            /\ UNCHANGED <<warnings, outcome, raisedExc, pool>>
                       ELSE LET e == Exc(LintExcType(lo), fname)
                                tb == <<Frame("run"), Frame("lint_rendered")>>
                                h == _handle_lint_path_exception(Some(pt.fname), e, tb)
                            IN  IF h.raise
                                THEN /\ Raise(e)
                                     /\ UNCHANGED <<yielded, warnings>>
                                ELSE /\ warnings' = warnings \o h.warning
                                     /\ UNCHANGED <<yielded, pc, outcome,
                                                    raisedExc, pool>>
    /\ nextRender' = nextRender + 1
    /\ UNCHANGED <<request, fix, runner, genDone, taskq, workers, outq,
                   ctlIndex, cur, printed, interrupt, linter_formatter,
                   reported,
                   meta>>

\* iter_partials is exhausted: the generator returns.
SeqFinish ==
    /\ pc = "running"
    /\ runner = "Sequential"
    /\ nextRender > NumFiles
    /\ pc' = "done"
    /\ outcome' = "returned"
    /\ UNCHANGED <<request, fix, runner, nextRender, genDone, taskq, workers,
                   outq, ctlIndex, cur, pool, yielded, warnings, printed,
                   raisedExc, interrupt, execs, linter_formatter, reported, renders,
                   built, meta>>

\* ----------------------------------------------------------- the caller
\* The caller asks the suspended generator for the next result.
Resume ==
    /\ pc = "suspended"
    /\ interrupt.state = "none"
    /\ pc' = IF IsParallel THEN "waiting" ELSE "running"
    /\ UNCHANGED <<request, fix, runner, nextRender, genDone, taskq, workers,
                   outq, ctlIndex, cur, pool, yielded, warnings, printed,
                   outcome, raisedExc, interrupt, execs, linter_formatter,
                   reported, renders,
                   built, meta>>

\* A run whose pool is not inside a with block: closing the generator
\* leaves the pool as it is.
Close_pool_left ==
    /\ pc = "suspended"
    /\ pc' = "done"
    /\ outcome' = "closed"
    /\ UNCHANGED <<request, fix, runner, nextRender, genDone, taskq, workers,
                   outq, ctlIndex, cur, pool, yielded, warnings, printed,
                   raisedExc, interrupt, execs, linter_formatter, reported,
                   renders, built, meta>>

\* The caller drops the suspended generator: GeneratorExit is raised at the
\* yield, no handler of run catches it, the with block terminates the pool.
Close ==
    /\ pc = "suspended"
    /\ pc' = "done"
    /\ outcome' = "closed"
    /\ pool' = IF pool = "running" THEN "terminated" ELSE pool
    /\ UNCHANGED <<request, fix, runner, nextRender, genDone, taskq, workers,
                   outq, ctlIndex, cur, yielded, warnings, printed, raisedExc,
                   interrupt, execs, linter_formatter, reported, renders,
                   built, meta>>

\* --------------------------------------------------------- ParallelRunner
NoTask == [kind |-> "none"]

\* What crosses from a worker to the controller: pickled and unpickled
\* between processes, the object itself between threads.
transport(r, v) ==
    IF r = "MultiProcess"
    THEN LET p == pickle(v)
         IN  IF p.cls = "unpicklable"
             THEN [success |-> FALSE, value |-> Exc("MaybeEncodingError", None)]
             ELSE [success |-> TRUE, value |-> unpickle(p)]
    ELSE [success |-> TRUE, value |-> v]

\* with self._create_pool(self.parallel, self._init_global, (self.config,)):
\* the pool starts `parallel` workers and run enters its try block, where
\* _map hands iter_partials to the pool and the loop waits for an item.
CreatePool ==
    /\ pc = "start"
    /\ IsParallel
    /\ pool' = "running"
    /\ workers' = [w \in 1..request.parallel |->
                     [state |-> "spawned", task |-> NoTask, inits |-> 0,
                      config |-> None, sigint_ignored |-> FALSE]]
    /\ pc' = "waiting"
    /\ UNCHANGED <<request, fix, runner, nextRender, genDone, taskq, outq,
                   ctlIndex, cur, yielded, warnings, printed, outcome,
                   raisedExc, interrupt, execs, linter_formatter, reported, renders,
                   built, meta>>

\* cls._init_global(config) of runner class r: whether it makes the process
\* it runs in ignore SIGINT. Only MultiProcessRunner overrides the base
\* method, which does nothing.
_init_global_base(r) == FALSE

_init_global(r) == r = "MultiProcess"

\* A started worker runs the initializer, _init_global(config), before its
\* task loop; MultiProcessRunner's makes the worker ignore SIGINT.
WorkerInit(w) ==
    /\ pool = "running"
    /\ workers[w].state = "spawned"
    /\ workers' = [workers EXCEPT ![w].state = "idle",
                                  ![w].inits = @ + 1,
                                  ![w].config = Some("runner_config"),
                                  ![w].sigint_ignored = _init_global(runner)]
    /\ UNCHANGED <<request, fix, runner, pc, nextRender, genDone, taskq, outq,
                   ctlIndex, cur, pool, yielded, warnings, printed, outcome,
                   raisedExc, interrupt, execs, linter_formatter, reported, renders,
                   built, meta>>

\* The pool draws the next item of iter_partials (render_file and
\* get_ruleset run here, in the controller process) and queues it as a task.
\* If the iterator raises, the pool queues a task that raises the exception
\* again and the iterator is finished.
RenderNext ==
    /\ pool = "running"
    /\ ~genDone
    /\ nextRender <= NumFiles
    /\ LET fname == iter_rendered(nextRender)
           pt == partial_tuple(runner, linter_formatter, fname, fix)
       IN  \E ro \in RenderOutcomes :
           /\ built' = IF ro = "ok" THEN Append(built, pt) ELSE built
           /\ taskq' = Append(taskq,
                 IF ro = "ok"
                 THEN [kind |-> "apply", i |-> nextRender,
                       pt |-> pt]
                 ELSE [kind |-> "reraise", i |-> nextRender,
                       exc |-> Exc(IF ro = "io" THEN "IOError" ELSE "ValueError",
                                   fname)])
           /\ genDone' = (ro # "ok" \/ nextRender = NumFiles)
           /\ renders' = Append(renders, [fname |-> fname, outcome |-> ro])
    /\ nextRender' = nextRender + 1
    /\ UNCHANGED <<request, fix, runner, pc, workers, outq, ctlIndex, cur,
                   pool, yielded, warnings, printed, outcome, raisedExc,
                   interrupt, execs, linter_formatter, reported,
                   meta>>

\* An idle worker takes the oldest queued task.
TakeTask(w) ==
    /\ pool = "running"
    /\ workers[w].state = "idle"
    /\ taskq # << >>
    /\ workers' = [workers EXCEPT ![w].state = "busy", ![w].task = Head(taskq)]
    /\ taskq' = Tail(taskq)
    /\ UNCHANGED <<request, fix, runner, pc, nextRender, genDone, outq,
                   ctlIndex, cur, pool, yielded, warnings, printed, outcome,
                   raisedExc, interrupt, execs, linter_formatter, reported, renders,
                   built, meta>>

\* A busy worker finishes its task: _apply(partial_tuple) returns a result
\* or a DelayedException, which is sent back; the worker is idle again.
WorkerFinish(w) ==
    /\ pool = "running"
    /\ workers[w].state = "busy"
    /\ LET t == workers[w].task
       IN  \/ /\ t.kind = "apply"
              /\ \E lo \in LintOutcomes :
                 /\ LET a == _apply(t.pt, lo)
                    IN  outq' = Append(outq,
                          IF a.raised
                          THEN [i |-> t.i, success |-> FALSE, value |-> a.value]
                          ELSE [i |-> t.i] @@ transport(runner, a.value))
                 /\ execs' = [execs EXCEPT ![t.pt.fname] = Append(@, lo)]
           \/ /\ t.kind = "reraise"
              /\ outq' = Append(outq,
                    [i |-> t.i, success |-> FALSE, value |-> t.exc])
              /\ UNCHANGED execs
    /\ workers' = [workers EXCEPT ![w].state = "idle", ![w].task = NoTask]
    /\ UNCHANGED <<request, fix, runner, pc, nextRender, genDone, taskq,
                   ctlIndex, cur, pool, yielded, warnings, printed, outcome,
                   raisedExc, interrupt, linter_formatter, reported, renders,
                   built, meta>>

\* terminate() cannot stop a thread: a MultiThread worker that is executing
\* a task when its pool is terminated runs the task to its end; what
\* _apply returns is dropped, and the thread then exits.
ThreadFinishLate(w) ==
    /\ runner = "MultiThread"
    /\ pool = "terminated"
    /\ workers[w].state = "busy"
    /\ LET t == workers[w].task
       IN  \/ /\ t.kind = "apply"
              /\ \E lo \in LintOutcomes :
                    execs' = [execs EXCEPT ![t.pt.fname] = Append(@, lo)]
           \/ /\ t.kind = "reraise"
              /\ UNCHANGED execs
    /\ workers' = [workers EXCEPT ![w].state = "exited", ![w].task = NoTask]
    /\ UNCHANGED <<request, fix, runner, pc, nextRender, genDone, taskq, outq,
                   ctlIndex, cur, pool, yielded, warnings, printed, outcome,
                   raisedExc, interrupt, linter_formatter, reported, renders,
                   built, meta>>

\* The positions in outq of the item the map iterator returns next: imap
\* returns items in task order, imap_unordered in the order they finished.
NextItemAt ==
    IF MAP_FUNCTION_NAME = "imap"
    THEN {k \in 1..Len(outq) : outq[k].i = ctlIndex + 1}
    ELSE {k \in 1..Len(outq) : k = 1}

RemoveAt(q, k) == [j \in 1..(Len(q) - 1) |-> IF j < k THEN q[j] ELSE q[j + 1]]

\* A loop that hands no result to the formatter while it collects.
Collect_unreported ==
    /\ pc = "waiting"
    /\ pool = "running"
    /\ \E k \in NextItemAt :
       LET item == outq[k]
       IN  /\ outq' = RemoveAt(outq, k)
           /\ ctlIndex' = ctlIndex + 1
           /\ IF ~item.success
              THEN /\ Raise(item.value)
                   /\ UNCHANGED <<cur, warnings, reported>>
              ELSE IF item.value.kind = "delayed"
              THEN LET r == reraise(item.value)
                       h == _handle_lint_path_exception(item.value.fname,
                                                        r.exc, r.tb)
                   IN  IF h.raise
                       THEN /\ Raise(r.exc)
                            /\ UNCHANGED <<cur, warnings, reported>>
                       ELSE /\ warnings' = warnings \o h.warning
                            /\ UNCHANGED <<cur, reported, pc, outcome,
                                           raisedExc, pool>>
              ELSE /\ cur' = item.value
                   /\ reported' = reported
                   /\ pc' = "reported"
                   /\ UNCHANGED <<warnings, outcome, raisedExc, pool>>
    /\ UNCHANGED <<request, fix, runner, nextRender, genDone, taskq, workers,
                   yielded, printed, interrupt, execs, linter_formatter, renders,
                   built, meta>>

\* The loop of ParallelRunner.run receives lint_result. A DelayedException
\* is reraised and handled at once; a result is given to the formatter,
\* after which run is about to yield it. An item the pool marks as failed is
\* raised by the iterator and leaves run.
Collect ==
    /\ pc = "waiting"
    /\ pool = "running"
    /\ \E k \in NextItemAt :
       LET item == outq[k]
       IN  /\ outq' = RemoveAt(outq, k)
           /\ ctlIndex' = ctlIndex + 1
           /\ IF ~item.success
              THEN /\ Raise(item.value)
                   /\ UNCHANGED <<cur, warnings, reported>>
              ELSE IF item.value.kind = "delayed"
              THEN LET r == reraise(item.value)
                       h == _handle_lint_path_exception(item.value.fname,
                                                        r.exc, r.tb)
                   IN  IF h.raise
                       THEN /\ Raise(r.exc)
                            /\ UNCHANGED <<cur, warnings, reported>>
                       ELSE /\ warnings' = warnings \o h.warning
                            /\ UNCHANGED <<cur, reported, pc, outcome,
                                           raisedExc, pool>>
              ELSE /\ cur' = item.value
                   /\ reported' =
                         IF linter_formatter # None
                         THEN Append(reported,
                                [path |-> item.value.path, result |-> item.value,
                                 only_fixable |-> fix])
                         ELSE reported
                   /\ pc' = "reported"
                   /\ UNCHANGED <<warnings, outcome, raisedExc, pool>>
    /\ UNCHANGED <<request, fix, runner, nextRender, genDone, taskq, workers,
                   yielded, printed, interrupt, execs, linter_formatter, renders,
                   built, meta>>

\* yield lint_result
Yield ==
    /\ pc = "reported"
    /\ yielded' = Append(yielded, cur)
    /\ cur' = NoItem
    /\ pc' = "suspended"
    /\ UNCHANGED <<request, fix, runner, nextRender, genDone, taskq, workers,
                   outq, ctlIndex, pool, warnings, printed, outcome, raisedExc,
                   interrupt, execs, linter_formatter, reported, renders,
                   built, meta>>

\* Every task's item has been returned: the loop ends, the with block
\* terminates the pool, the generator returns.
CollectEnd ==
    /\ pc = "waiting"
    /\ pool = "running"
    /\ genDone
    /\ ctlIndex = nextRender - 1
    /\ pc' = "done"
    /\ outcome' = "returned"
    /\ pool' = "terminated"
    /\ UNCHANGED <<request, fix, runner, nextRender, genDone, taskq, workers,
                   outq, ctlIndex, cur, yielded, warnings, printed, raisedExc,
                   interrupt, execs, linter_formatter, reported, renders,
                   built, meta>>

\* ------------------------------------------------------- user interrupt
InterruptInRun_uncaught ==
    /\ IsParallel
    /\ pc \in {"waiting", "reported"}
    /\ interrupt.state = "none"
    /\ interrupt' = [state |-> "unhandled", at |-> pc]
    /\ Raise(Exc("KeyboardInterrupt", None))
    /\ UNCHANGED <<request, fix, runner, nextRender, genDone, taskq, workers,
                   outq, ctlIndex, cur, yielded, warnings, printed, execs,
                   linter_formatter, reported, renders,
                   built, meta>>

\* A handler that prints the message but leaves the pool running and the
\* loop going.
InterruptInRun_continue ==
    /\ IsParallel
    /\ pc \in {"waiting", "reported"}
    /\ interrupt.state = "none"
    /\ interrupt' = [state |-> "handled", at |-> pc]
    /\ printed' = TRUE
    /\ UNCHANGED <<request, fix, runner, pc, nextRender, genDone, taskq,
                   workers, outq, ctlIndex, cur, pool, yielded, warnings,
                   outcome, raisedExc, execs, linter_formatter, reported,
                   renders, built, meta>>

\* KeyboardInterrupt is raised in the main thread while it executes inside
\* the try block of ParallelRunner.run: the handler prints, terminates the
\* pool, and run returns.
InterruptInRun ==
    /\ IsParallel
    /\ pc \in {"waiting", "reported"}
    /\ interrupt.state = "none"
    /\ interrupt' = [state |-> "handled", at |-> pc]
    /\ printed' = TRUE
    /\ pool' = "terminated"
    /\ pc' = "done"
    /\ outcome' = "returned"
    /\ UNCHANGED <<request, fix, runner, nextRender, genDone, taskq, workers,
                   outq, ctlIndex, cur, yielded, warnings, raisedExc, execs,
                   linter_formatter, reported, renders,
                   built, meta>>

\* KeyboardInterrupt is raised in the main thread while the generator is
\* suspended at its yield: it is raised in the caller's code, and no
\* handler of run sees it.
InterruptSuspended ==
    /\ pc = "suspended"
    /\ interrupt.state = "none"
    /\ interrupt' = [state |-> "unhandled", at |-> pc]
    /\ UNCHANGED <<request, fix, runner, pc, nextRender, genDone, taskq,
                   workers, outq, ctlIndex, cur, pool, yielded, warnings,
                   printed, outcome, raisedExc, execs, linter_formatter,
                   reported, renders,
                   built, meta>>

\* KeyboardInterrupt inside SequentialRunner.run: it is no Exception, the
\* handler does not catch it.
InterruptSequential ==
    /\ runner = "Sequential"
    /\ pc = "running"
    /\ interrupt.state = "none"
    /\ interrupt' = [state |-> "unhandled", at |-> pc]
    /\ Raise(Exc("KeyboardInterrupt", None))
    /\ UNCHANGED <<request, fix, runner, nextRender, genDone, taskq, workers,
                   outq, ctlIndex, cur, yielded, warnings, printed, execs,
                   linter_formatter, reported, renders,
                   built, meta>>

Next ==
    \/ GetRunner
    \/ SeqStart
    \/ SeqStep
    \/ SeqFinish
    \/ Resume
    \/ Close
    \/ CreatePool
    \/ \E w \in 1..Len(workers) : WorkerInit(w)
    \/ RenderNext
    \/ \E w \in 1..Len(workers) : TakeTask(w)
    \/ \E w \in 1..Len(workers) : WorkerFinish(w)
    \/ \E w \in 1..Len(workers) : ThreadFinishLate(w)
    \/ Collect
    \/ Yield
    \/ CollectEnd
    \/ InterruptInRun
    \/ InterruptSuspended
    \/ InterruptSequential

Spec == Init /\ [][Next]_vars

\* ---------------------------------------------------- derived quantities
YieldedPaths == {yielded[k].path : k \in DOMAIN yielded}
Linted(lo) == {f \in Files : execs[f] = <<lo>>}
LintWarnings == {k \in DOMAIN warnings : warnings[k].kind = "lint"}
WarningsAbout(f) == {k \in LintWarnings : warnings[k].trace.msg = f}
\* the run ran to its end: nobody interrupted it or closed the stream early
RanToEnd == pc = "done" /\ outcome \in {"returned", "raised"}
               /\ interrupt.state = "none"
\* every file was linted and no lint raised an I/O failure
OnlySoftFailures == \A f \in Files : execs[f] # << >> /\ execs[f][1] # "io"

\* ---------------------------------------------------------------- claims

\* C1: whatever the runner, when k of the N files raise a non-I/O exception
\* while being linted (and nothing else goes wrong), run ends without
\* raising and has yielded exactly N-k results, one per file that did not
\* fail and none for a file that failed.
C1_SoftFailuresAreNotFatal ==
    (RanToEnd /\ OnlySoftFailures) =>
        /\ outcome = "returned"
        /\ raisedExc = NoExc
        /\ Len(yielded) = NumFiles - Cardinality(Linted("soft"))
        /\ YieldedPaths = Linted("ok")

C1_Witness ==
    /\ RanToEnd /\ OnlySoftFailures
    /\ runner = "MultiProcess"
    /\ execs[1] = <<"soft">>
    /\ Len(yielded) = NumFiles - 1

\* C2: whatever the runner, a file F whose lint raised a non-I/O exception
\* gets exactly one warning, and that warning carries F's own filename and
\* a non-empty trace.
C2_WarningNamesTheFile ==
    (RanToEnd /\ outcome = "returned") =>
        \A f \in Linted("soft") :
            /\ Cardinality(WarningsAbout(f)) = 1
            /\ \A k \in WarningsAbout(f) :
                  /\ warnings[k].fname = Some(f)
                  /\ warnings[k].trace.frames # << >>

\* C9: get_runner is total: Sequential without a warning for parallel <= 1,
\* MultiProcess / MultiThread by the flag for parallel > 1 on a runtime with
\* parallel support, Sequential with one warning for parallel > 1 without.
C9_GetRunnerSelection ==
    pc # "new" =>
        LET unsupported == {k \in DOMAIN warnings : warnings[k].kind = "unsupported"}
        IN  /\ runner \in {"Sequential", "MultiThread", "MultiProcess"}
            /\ request.parallel <= 1 =>
                  runner = "Sequential" /\ unsupported = {}
            /\ (request.parallel > 1 /\ request.py37) =>
                  /\ runner = IF request.allow THEN "MultiProcess" ELSE "MultiThread"
                  /\ unsupported = {}
            /\ (request.parallel > 1 /\ ~request.py37) =>
                  runner = "Sequential" /\ Cardinality(unsupported) = 1

C9_Witness ==
    /\ pc = "start"
    /\ request.parallel > 1 /\ ~request.py37
    /\ runner = "Sequential"
    /\ warnings = <<[kind |-> "unsupported"]>>

\* C3 as claimed: when an I/O failure of file F leaves run, every result
\* yielded before belongs to a file that precedes F in the input order,
\* whatever the runner.
C3_EarlierResultsPrecedeF ==
    (outcome = "raised" /\ raisedExc.type = "IOError") =>
        \A k \in DOMAIN yielded : yielded[k].path < raisedExc.msg

\* the file whose rendering or linting raised the I/O failure e
IoFailureOf(e) ==
    {f \in Files : /\ e = Exc("IOError", f)
                   /\ \/ execs[f] = <<"io">>
                      \/ \E k \in DOMAIN renders :
                            renders[k] = [fname |-> f, outcome |-> "io"]}

C3_IoFailureAborts ==
    \* an I/O failure the run has seen is never swallowed
    /\ (RanToEnd /\ outcome = "returned") =>
          /\ \A f \in Files : execs[f] # <<"io">>
          /\ \A k \in DOMAIN renders : renders[k].outcome # "io"
    \* the failure that leaves run is the failing file's own, the run is
    \* over, and F has no result; Sequential and MultiThread have yielded
    \* only files before F
    /\ (outcome = "raised" /\ raisedExc.type = "IOError") =>
          /\ pc = "done"
          /\ pool # "running"
          /\ IoFailureOf(raisedExc) = {raisedExc.msg}
          /\ raisedExc.msg \notin YieldedPaths
          /\ runner \in {"Sequential", "MultiThread"} =>
                \A k \in DOMAIN yielded : yielded[k].path < raisedExc.msg

\* C3, amended: an I/O failure of file F leaves run unchanged and ends it,
\* nothing is yielded afterwards and F has no result; the results yielded
\* before precede F in input order for Sequential and Thread-Parallel, while
\* Process-Parallel may have yielded results of files after F.
C3_IoFailureIsFatal ==
    /\ []C3_IoFailureAborts
    /\ [][outcome = "raised" => (yielded' = yielded /\ outcome' = "raised")]_vars

C3_Witness ==
    /\ outcome = "raised" /\ raisedExc = Exc("IOError", 1)
    /\ runner = "MultiProcess"
    /\ Len(yielded) >= 1

\* C4 as claimed: nothing but an I/O failure (or a user interrupt) ever
\* leaves run, whichever stage of a file's processing raised.
C4_OnlyIoFailuresPropagate ==
    outcome = "raised" => raisedExc.type \in {"IOError", "KeyboardInterrupt"}

\* C4, amended: an exception raised by a file's deferred lint computation
\* leaves run only if it is an I/O failure; an exception raised while the
\* file is rendered or its rule-set is built leaves run whatever its kind.
C4_LintFailuresStayInside ==
    (outcome = "raised" /\ raisedExc.type \notin {"IOError", "KeyboardInterrupt"}) =>
        /\ raisedExc.type = "ValueError"
        /\ raisedExc.msg \in Files
        /\ execs[raisedExc.msg] = << >>
        /\ \E k \in DOMAIN renders :
              /\ renders[k].fname = raisedExc.msg
              /\ renders[k].outcome \in {"soft", "ruleset"}

C4_Witness ==
    /\ outcome = "raised" /\ raisedExc = Exc("ValueError", 2)
    /\ execs[1] = <<"soft">>
    /\ runner = "MultiThread"

\* C5: for Sequential and MultiThread the results come out in input order
\* and none that linted successfully is passed over, however the workers
\* interleave; at the end of a full run the stream is the input order
\* restricted to the files that linted successfully.
C5_ResultsInInputOrder ==
    runner \in {"Sequential", "MultiThread"} =>
        /\ \A j, k \in DOMAIN yielded : j < k => yielded[j].path < yielded[k].path
        /\ \A k \in DOMAIN yielded : \A f \in Files :
              (f < yielded[k].path /\ execs[f] = <<"ok">>) => f \in YieldedPaths
        /\ (RanToEnd /\ outcome = "returned") => YieldedPaths = Linted("ok")

\* a later unit has finished before an earlier one and waits in the pool
\* while the earlier results have been yielded in order
C5_Witness ==
    /\ runner = "MultiThread"
    /\ Len(yielded) = 1 /\ yielded[1].path = 1
    /\ ctlIndex = 1
    /\ Len(outq) = 1 /\ outq[1].i = 3
    /\ \E w \in DOMAIN workers :
          workers[w].state = "busy" /\ workers[w].task.i = 2

\* the controller of the MultiProcess run takes finished items oldest first
FinishOrder ==
    \/ outq' = outq
    \/ outq # << >> /\ outq' = Tail(outq)
    \/ Len(outq') = Len(outq) + 1 /\ SubSeq(outq', 1, Len(outq)) = outq

C6_ExactlyOnce ==
    runner = "MultiProcess" =>
        /\ \A f \in Files : Len(execs[f]) <= 1
        /\ \A j, k \in DOMAIN yielded : j # k => yielded[j].path # yielded[k].path
        /\ YieldedPaths \subseteq Linted("ok")
        /\ (RanToEnd /\ outcome = "returned") =>
              /\ \A f \in Files : Len(execs[f]) = 1
              /\ \A f \in Files : execs[f][1] # "io"
              /\ YieldedPaths = Linted("ok")

\* C6: a MultiProcess run without interrupt or I/O failure yields results
\* in the order the workers finish them; every unit is executed exactly
\* once, failed or not, and every successful file appears exactly once.
C6_CompletionOrderPermutation ==
    /\ []C6_ExactlyOnce
    /\ [][runner = "MultiProcess" => FinishOrder]_vars

\* a full run whose results came out against the input order, one file
\* having failed
C6_Witness ==
    /\ runner = "MultiProcess"
    /\ RanToEnd /\ outcome = "returned"
    /\ Len(yielded) = 2 /\ yielded[1].path > yielded[2].path
    /\ Cardinality(Linted("soft")) = 1

\* what linting file f without fix finds: the file's own configuration
\* selects the rules
ViolationsOf(f) ==
    lint_rendered(render_file(f, "runner_config"), get_ruleset(FileConfig(f)),
                  FALSE, None).violations

C8_InterruptAlwaysHandled ==
    (IsParallel /\ interrupt.state # "none") =>
        /\ interrupt.state = "handled"
        /\ pool = "terminated"
        /\ outcome = "returned"

\* C8, amended: a user interrupt raised while the controller executes
\* inside the try block of a parallel run (waiting for a result, handling a
\* failure, reporting a result) is caught: the message is printed, the pool
\* is terminated and run returns without raising. One raised while run is
\* suspended at its yield is raised in the caller; run does not see it and
\* its pool is terminated only when the caller closes the stream.
C8_InterruptInsideRunHandled ==
    IsParallel =>
        /\ interrupt.at \in {"waiting", "reported"} =>
              /\ interrupt.state = "handled"
              /\ printed
              /\ pool = "terminated"
              /\ pc = "done"
              /\ outcome = "returned"
              /\ raisedExc = NoExc
        /\ interrupt.at = "suspended" =>
              /\ interrupt.state = "unhandled"
              /\ ~printed
              /\ outcome \in {"running", "closed"}
              /\ pool = "terminated" <=> outcome = "closed"

\* interrupted after a result was reported and before it was yielded, with
\* a unit still executing
C8_Witness ==
    /\ runner = "MultiProcess"
    /\ interrupt = [state |-> "handled", at |-> "reported"]
    /\ outcome = "returned"
    /\ Len(yielded) = 1
    /\ \E w \in DOMAIN workers : workers[w].state = "busy"

\* the exception the lint of task i's file raised in the worker
OriginalExc(i) == Exc(LintExcType(execs[fnames[i]][1]), fnames[i])
FrameNames(tb) == [j \in 1..Len(tb) |-> tb[j].fn]

\* C10: an envelope built in the handler of the failing exception and
\* brought to the controller, through pickle for processes, reraises an
\* exception of the original class and message whose trace ends with the
\* frames captured in the worker.
C10_EnvelopeRoundTrip ==
    \A k \in DOMAIN outq :
        (outq[k].success /\ outq[k].value.kind = "delayed") =>
            LET r == reraise(outq[k].value)
                n == Len(r.tb)
            IN  /\ r.exc = OriginalExc(outq[k].i)
                /\ r.exc.type \in {"ValueError", "IOError"}
                /\ n >= 2
                /\ FrameNames(SubSeq(r.tb, n - 1, n)) = <<"_apply", "lint_rendered">>

C10_Witness ==
    /\ runner = "MultiProcess"
    /\ \E k \in DOMAIN outq :
          /\ outq[k].success
          /\ outq[k].value.kind = "delayed"
          /\ outq[k].value.ee = Exc("ValueError", 2)
          /\ \A j \in DOMAIN outq[k].value.tb : ~outq[k].value.tb[j].live

\* C11: an envelope built for a failure of file F holds the original
\* exception, the trace captured at the point of failure and F as its
\* filename, and the controller reads F back from it.
C11_EnvelopeKeepsFilename ==
    \A k \in DOMAIN outq :
        (outq[k].success /\ outq[k].value.kind = "delayed") =>
            /\ outq[k].value.ee = OriginalExc(outq[k].i)
            /\ outq[k].value.tb # NoTb
            /\ outq[k].value.fname = Some(fnames[outq[k].i])

\* once the handler of run has seen the interrupt, the message is printed
\* and the pool is terminated
C16_Acknowledged ==
    interrupt.state = "handled" => (printed /\ pool = "terminated" /\ pc = "done")

\* C16: from the moment the controller of a parallel run observes a user
\* interrupt, no result is yielded or given to the formatter and no failure
\* warning is logged, so work in flight or not yet dispatched is reported
\* neither as success nor as failure; what was yielded before stays, and the
\* shutdown message is printed.
C16_NothingAfterInterrupt ==
    /\ []C16_Acknowledged
    /\ [][interrupt'.state = "handled" =>
            (yielded' = yielded /\ reported' = reported /\ warnings' = warnings)]_vars

\* interrupted with one result out, a failure waiting uncollected in the
\* pool and a unit still executing
C16_Witness ==
    /\ interrupt.state = "handled"
    /\ printed
    /\ Len(yielded) = 1
    /\ LintWarnings = {}
    /\ \E k \in DOMAIN outq : outq[k].success /\ outq[k].value.kind = "delayed"
    /\ \E w \in DOMAIN workers : workers[w].state = "busy"

\* what the controller receives for a unit whose lint ended lo
C17_Returned ==
    IsParallel =>
        /\ \A k \in DOMAIN outq :
              LET f == fnames[outq[k].i]
              IN  execs[f] # << >> =>
                    /\ outq[k].success
                    /\ execs[f][1] = "ok" => outq[k].value.kind = "result"
                    /\ execs[f][1] # "ok" =>
                          /\ outq[k].value.kind = "delayed"
                          /\ outq[k].value.ee = OriginalExc(outq[k].i)
        /\ \A k \in DOMAIN yielded : yielded[k].kind = "result"
        /\ \A k \in DOMAIN reported : reported[k].result.kind = "result"
        /\ cur.kind \in {"none", "result"}

\* C17: in both parallel runners an exception of a unit's lint is caught in
\* the worker and comes back as a DelayedException in place of a result;
\* the worker that finishes a unit, failed or not, is idle and free for the
\* next one; the controller never yields or reports an envelope.
C17_FailureStaysInWorker ==
    /\ []C17_Returned
    /\ [][IsParallel =>
            \A w \in DOMAIN workers :
                (pool' = "running" /\ workers[w].state = "busy"
                    /\ workers'[w].state # "busy") =>
                    /\ workers'[w].state = "idle"
                    /\ workers'[w].inits = workers[w].inits]_vars

\* the unit of file 1 has failed and every worker, so also the one that
\* executed it, is executing another unit
C17_Witness ==
    /\ runner = "MultiProcess"
    /\ pool = "running"
    /\ execs[1] = <<"soft">>
    /\ \A w \in DOMAIN workers :
          workers[w].state = "busy" /\ workers[w].task.kind = "apply"

\* C18: every worker of a MultiProcess pool runs the initializer once, with
\* the runner's configuration, before it executes a unit, and the
\* initializer makes it ignore SIGINT, so a worker executing a unit ignores
\* user interrupts; the MultiThread initializer changes no signal handling.
C18_WorkerInitialised ==
    \A w \in DOMAIN workers :
        /\ workers[w].inits <= 1
        /\ workers[w].state = "spawned" =>
              workers[w].inits = 0 /\ workers[w].task = NoTask
        /\ workers[w].state \in {"idle", "busy"} =>
              /\ workers[w].inits = 1
              /\ workers[w].config = Some("runner_config")
        /\ (runner = "MultiProcess" /\ workers[w].state = "busy") =>
              workers[w].sigint_ignored
        /\ runner = "MultiThread" => ~workers[w].sigint_ignored

\* one worker executes a unit with SIGINT ignored while another has not
\* yet run its initializer
C18_Witness ==
    /\ runner = "MultiProcess"
    /\ \E w \in DOMAIN workers :
          workers[w].state = "busy" /\ workers[w].sigint_ignored
    /\ \E w \in DOMAIN workers : workers[w].state = "spawned"

\* the files rendered so far are the first files of the input, in order,
\* and no worker holds or has executed a file that is not rendered
C19_RenderedPrefix ==
    /\ Len(renders) = nextRender - 1
    /\ \A k \in DOMAIN renders : renders[k].fname = fnames[k]
    /\ \A k \in DOMAIN taskq : taskq[k].i <= Len(renders)
    /\ \A w \in DOMAIN workers :
          workers[w].state = "busy" => workers[w].task.i <= Len(renders)
    /\ \A f \in Files :
          execs[f] # << >> =>
              \E k \in DOMAIN renders :
                  renders[k] = [fname |-> f, outcome |-> "ok"]

\* C19: whatever the runner, files are rendered one at a time in input
\* order by the controller: a step renders at most one file, and no step of
\* a pool worker renders. (That a unit can execute while later files are
\* unrendered is the witness.)
C19_RenderingIsSequential ==
    /\ []C19_RenderedPrefix
    /\ [][/\ Len(renders') <= Len(renders) + 1
          /\ workers' # workers => renders' = renders]_vars

\* the unit of file 1 has been executed and file 2 is not rendered yet
C19_Witness ==
    /\ IsParallel
    /\ execs[1] # << >>
    /\ nextRender = 2
    /\ Len(renders) = 1

\* the work units a pool holds
HeldUnits ==
    {taskq[k].pt : k \in {j \in DOMAIN taskq : taskq[j].kind = "apply"}}
        \cup {workers[w].task.pt :
                w \in {v \in DOMAIN workers : workers[v].task.kind = "apply"}}

\* C20: every work unit has its own rule-set, built by one get_ruleset call
\* with the configuration of its own rendered file; no two units share a
\* rule-set object, and a pool executes only units built this way.
C20_FreshRuleSetPerUnit ==
    /\ \A k \in DOMAIN built :
          /\ built[k].partial.rendered.fname = built[k].fname
          /\ built[k].partial.rule_set.config = built[k].partial.rendered.config
          /\ built[k].partial.rule_set.config = FileConfig(built[k].fname)
          /\ \A j \in DOMAIN built :
                j # k => built[j].partial.rule_set.instance
                           # built[k].partial.rule_set.instance
    /\ HeldUnits \subseteq {built[k] : k \in DOMAIN built}

\* two units built from files whose configurations differ
C20_Witness ==
    /\ runner = "MultiThread"
    /\ Len(built) = NumFiles
    /\ built[1].partial.rule_set.config # built[2].partial.rule_set.config
    /\ \E w \in DOMAIN workers : workers[w].state = "busy"


\* ======================================================= meta segments
\* (core/parser/segments/meta.py)

\* Bounds of the texts a TemplateSegment is built from.
MaxSrcLen == 2
MaxTagLen == 1

\* Characters are tokens: an ordinary letter, the two quotes, the backslash
\* and the newline. A string is a sequence of characters.
Chars == {"n", "SQ", "DQ", "BS", "NL"}
Strs(n) == UNION {[1..k -> Chars] : k \in 0..n}
EmptyStr == << >>
RangeOf(s) == {s[k] : k \in DOMAIN s}

MetaClasses == {"MetaSegment", "Indent", "Dedent", "TemplateSegment"}

\* The class a class derives from.
Base(cls) ==
    CASE cls = "Indent" -> "MetaSegment"
      [] cls = "Dedent" -> "Indent"
      [] cls = "TemplateSegment" -> "MetaSegment"
      [] cls = "MetaSegment" -> "RawSegment"

\* A Dedent that only inherits from Indent.
ClassDict_dedent_inherits(cls) ==
    CASE cls = "MetaSegment" ->
            [type |-> "meta", _is_code |-> FALSE, _template |-> "<unset>",
             indent_val |-> 0, is_meta |-> TRUE]
      [] cls = "Indent" -> [type |-> "indent", indent_val |-> 1]
      [] cls = "Dedent" -> [type |-> "dedent"]
      [] cls = "TemplateSegment" -> [type |-> "placeholder"]

\* The attributes each class body assigns.
ClassDict(cls) ==
    CASE cls = "MetaSegment" ->
            [type |-> "meta", _is_code |-> FALSE, _template |-> "<unset>",
             indent_val |-> 0, is_meta |-> TRUE]
      [] cls = "Indent" -> [type |-> "indent", indent_val |-> 1]
      [] cls = "Dedent" -> [type |-> "dedent", indent_val |-> -1]
      [] cls = "TemplateSegment" -> [type |-> "placeholder"]

\* Attribute lookup along the bases of a class.
RECURSIVE class_getattr(_, _)
class_getattr(cls, name) ==
    IF name \in DOMAIN ClassDict(cls)
    THEN ClassDict(cls)[name]
    ELSE class_getattr(Base(cls), name)

\* Attribute lookup on an instance: its own attributes, then its class.
getattr(seg, name) ==
    IF name \in DOMAIN seg.dict
    THEN seg.dict[name]
    ELSE class_getattr(seg.cls, name)

\* What RawSegment.__init__ leaves on an instance built without text.
RawSegment_init(pos_marker) == [raw |-> EmptyStr, pos_marker |-> pos_marker]

\* The outcome of a call: an exception, or a value.
Raised(type, msg) == [raised |-> Some([type |-> type, msg |-> msg]), value |-> None]
Returned(v) == [raised |-> None, value |-> Some(v)]

\* An argument left out takes the default of the signature.
ArgOr(arg, default) == IF arg = None THEN default ELSE CHOOSE x \in arg : TRUE

\* A TemplateSegment.__init__ that accepts any source.
TemplateSegment_init_unchecked(pos_marker, source_str, block_type) ==
    Returned([cls |-> "TemplateSegment",
              dict |-> RawSegment_init(pos_marker)
                         @@ [source_str |-> ArgOr(source_str, EmptyStr),
                             block_type |-> ArgOr(block_type, EmptyStr)]])

\* TemplateSegment.__init__(pos_marker=None, source_str="", block_type="")
TemplateSegment_init(pos_marker, source_str, block_type) ==
    LET src == ArgOr(source_str, EmptyStr)
        tag == ArgOr(block_type, EmptyStr)
    IN  IF src = EmptyStr
        THEN Raised("ValueError", "Cannot instantiate TemplateSegment without a source_str.")
        ELSE Returned([cls |-> "TemplateSegment",
                       dict |-> RawSegment_init(pos_marker)
                                  @@ [source_str |-> src, block_type |-> tag]])

\* MetaSegment, Indent and Dedent define no __init__ of their own.
Plain_init(cls, pos_marker) ==
    Returned([cls |-> cls, dict |-> RawSegment_init(pos_marker)])

\* ---- repr() of a string
\* The quote repr encloses the string in: double quotes only when the
\* string has a single quote and no double quote.
ReprQuote(s) ==
    IF "SQ" \in RangeOf(s) /\ "DQ" \notin RangeOf(s) THEN "DQ" ELSE "SQ"

\* An escaping that leaves the backslash alone.
ReprChar_backslash_kept(c, q) ==
    CASE c = "NL" -> <<"BS", "n">>
      [] c = q -> <<"BS", c>>
      [] OTHER -> <<c>>

\* How repr writes one character inside quotes q.
ReprChar(c, q) ==
    CASE c = "BS" -> <<"BS", "BS">>
      [] c = "NL" -> <<"BS", "n">>
      [] c = q -> <<"BS", c>>
      [] OTHER -> <<c>>

RECURSIVE ReprBody(_, _)
ReprBody(s, q) ==
    IF s = EmptyStr THEN EmptyStr
    ELSE ReprChar(Head(s), q) \o ReprBody(Tail(s), q)

Repr(s) == <<ReprQuote(s)>> \o ReprBody(s, ReprQuote(s)) \o <<ReprQuote(s)>>

\* ---- _suffix
\* MetaSegment._suffix
MetaSegment_suffix(seg) == EmptyStr

\* TemplateSegment._suffix: the f-string, piece by piece.
TemplateSegment_suffix(seg) ==
    <<"[Type: ">> \o Repr(getattr(seg, "block_type"))
        \o <<", Raw: ">> \o Repr(getattr(seg, "source_str")) \o <<"]">>

\* The _suffix a segment's class resolves to.
_suffix(seg) ==
    IF seg.cls = "TemplateSegment"
    THEN TemplateSegment_suffix(seg)
    ELSE MetaSegment_suffix(seg)

\* ---- match
\* The inputs match is called with.
MatchInputs == {<< >>, <<"segment">>, <<"segment", "segment">>}

\* A match that answers like an ordinary grammar that found nothing.
match_no_match(cls, segments) ==
    Returned([matched |-> << >>, unmatched |-> segments])

\* The body of MetaSegment.match, a classmethod every meta class inherits.
match(cls, segments) ==
    Raised("NotImplementedError",
           [format |-> "{} has no match method, it should only be used in a Sequence!",
            arg |-> cls])

\* The match_wrapper decorator: it calls the method and hands on what the
\* method raises or returns.
match_wrapper(res) ==
    IF res.raised # None THEN res ELSE Returned(ArgOr(res.value, NoSeg))

\* ---- calls
Call(op, cls, args, res) ==
    [op |-> op, cls |-> cls, args |-> args,
     raised |-> res.raised, value |-> res.value]

runnerVars ==
    <<request, fix, runner, pc, nextRender, genDone, taskq, workers, outq,
      ctlIndex, cur, pool, yielded, warnings, printed, outcome, raisedExc,
      interrupt, execs, linter_formatter, reported, renders, built>>

PosMarkers == {None, Some("pos_marker")}

\* cls(pos_marker) for a class without an __init__ of its own
NewPlain(cls) ==
    /\ meta.seg = NoSeg
    /\ \E pm \in PosMarkers :
          LET r == Plain_init(cls, pm)
          IN  meta' = [seg |-> ArgOr(r.value, NoSeg),
                       out |-> Call("init", cls, [pos_marker |-> pm], r)]
    /\ UNCHANGED runnerVars

\* TemplateSegment(pos_marker, source_str, block_type), each argument
\* given or left out
NewTemplateSegment ==
    /\ meta.seg = NoSeg
    /\ \E pm \in PosMarkers :
       \E src \in {None} \cup {Some(s) : s \in Strs(MaxSrcLen)} :
       \E tag \in {None} \cup {Some(s) : s \in Strs(MaxTagLen)} :
          LET r == TemplateSegment_init(pm, src, tag)
          IN  meta' = [seg |-> ArgOr(r.value, NoSeg),
                       out |-> Call("init", "TemplateSegment",
                                    [pos_marker |-> pm, source_str |-> src,
                                     block_type |-> tag], r)]
    /\ UNCHANGED runnerVars

\* The segment is released.
Drop ==
    /\ meta.seg # NoSeg
    /\ meta' = MetaIdle
    /\ UNCHANGED runnerVars

\* seg._suffix()
CallSuffix ==
    /\ meta.seg # NoSeg
    /\ meta' = [meta EXCEPT !.out =
                    Call("_suffix", meta.seg.cls, << >>, Returned(_suffix(meta.seg)))]
    /\ UNCHANGED runnerVars

\* cls.match(segments, parse_context), on the class or through an instance
CallMatch(cls) ==
    /\ meta.seg = NoSeg \/ meta.seg.cls = cls
    /\ \E segments \in MatchInputs :
          meta' = [meta EXCEPT !.out =
                      Call("match", cls, segments,
                           match_wrapper(match(cls, segments)))]
    /\ UNCHANGED runnerVars

InitMeta ==
    /\ Init
    /\ request = [parallel |-> 1, allow |-> FALSE, py37 |-> TRUE]
    /\ fix = FALSE
    /\ linter_formatter = None

NextMeta ==
    \/ \E cls \in {"MetaSegment", "Indent", "Dedent"} : NewPlain(cls)
    \/ NewTemplateSegment
    \/ Drop
    \/ CallSuffix
    \/ \E cls \in MetaClasses : CallMatch(cls)

SpecMeta == InitMeta /\ [][NextMeta]_vars


\* ------------------------------------------------ claims on meta segments
IsPlaceholder(seg) == seg # NoSeg /\ seg.cls = "TemplateSegment"

\* the last call constructed, or tried to construct, a TemplateSegment
PlaceholderInit == meta.out.op = "init" /\ meta.out.cls = "TemplateSegment"

C12_WitnessAccepted ==
    /\ PlaceholderInit
    /\ meta.out.args.source_str = Some(<<"SQ", "NL">>)
    /\ meta.out.args.block_type = None
    /\ IsPlaceholder(meta.seg)


\* ---- reading a suffix back
IsSubstring(a, b) ==
    \E k \in 0..(Len(b) - Len(a)) : SubSeq(b, k + 1, k + Len(a)) = a

At(t, p) == IF p \in DOMAIN t THEN t[p] ELSE "EOF"

\* the character an escape pair stands for
Unescape(c) == IF c = "n" THEN "NL" ELSE c

\* Reads a quoted literal whose opening quote q is at p - 1: the text up
\* to the closing quote, and the position after it.
RECURSIVE ReadLiteral(_, _, _, _)
ReadLiteral(t, p, q, acc) ==
    IF p > Len(t) THEN [ok |-> FALSE, text |-> acc, next |-> p]
    ELSE IF t[p] = q THEN [ok |-> TRUE, text |-> acc, next |-> p + 1]
    ELSE IF t[p] = "BS"
         THEN IF p + 1 > Len(t)
              THEN [ok |-> FALSE, text |-> acc, next |-> p]
              ELSE ReadLiteral(t, p + 2, q, Append(acc, Unescape(t[p + 1])))
    ELSE ReadLiteral(t, p + 1, q, Append(acc, t[p]))

\* What a reader of a suffix recovers from it: nothing, or the block type
\* and the source.
ReadSuffix(t) ==
    IF At(t, 1) # "[Type: " \/ At(t, 2) \notin {"SQ", "DQ"} THEN None
    ELSE LET a == ReadLiteral(t, 3, t[2], EmptyStr)
         IN  IF ~a.ok \/ At(t, a.next) # ", Raw: "
                  \/ At(t, a.next + 1) \notin {"SQ", "DQ"}
             THEN None
             ELSE LET b == ReadLiteral(t, a.next + 2, t[a.next + 1], EmptyStr)
                  IN  IF b.ok /\ b.next = Len(t) /\ At(t, b.next) = "]"
                      THEN Some([block_type |-> a.text, source_str |-> b.text])
                      ELSE None

\* a text repr writes as it is: no backslash, no newline, not both quotes
WrittenAsIs(s) ==
    /\ "BS" \notin RangeOf(s)
    /\ "NL" \notin RangeOf(s)
    /\ ~("SQ" \in RangeOf(s) /\ "DQ" \in RangeOf(s))

SuffixCalled == meta.out.op = "_suffix" /\ meta.out.raised = None
LastSuffix == ArgOr(meta.out.value, EmptyStr)

\* C13 as stated: whatever characters the source and the block type of a
\* TemplateSegment contain, its suffix contains both verbatim; MetaSegment,
\* Indent and Dedent return the empty suffix.
C13_SuffixContainsVerbatim ==
    SuffixCalled =>
        IF IsPlaceholder(meta.seg)
        THEN /\ IsSubstring(getattr(meta.seg, "block_type"), LastSuffix)
             /\ IsSubstring(getattr(meta.seg, "source_str"), LastSuffix)
        ELSE LastSuffix = EmptyStr

\* C13 amended: the suffix of a TemplateSegment is
\* "[Type: " repr(block_type) ", Raw: " repr(source_str) "]"; block type
\* and source are recovered from it by reading the two quoted literals
\* back, and are in it verbatim when they hold no backslash, no newline and
\* not both kinds of quote; MetaSegment, Indent and Dedent return the empty
\* suffix.
C13_SuffixRecoverable ==
    SuffixCalled =>
        IF IsPlaceholder(meta.seg)
        THEN LET tag == getattr(meta.seg, "block_type")
                 src == getattr(meta.seg, "source_str")
             IN  /\ ReadSuffix(LastSuffix)
                      = Some([block_type |-> tag, source_str |-> src])
                 /\ WrittenAsIs(tag) => IsSubstring(tag, LastSuffix)
                 /\ WrittenAsIs(src) => IsSubstring(src, LastSuffix)
        ELSE LastSuffix = EmptyStr

\* the suffix of a TemplateSegment whose source is a quote and a newline
\* and whose block type is a backslash
C13_Witness ==
    /\ SuffixCalled
    /\ IsPlaceholder(meta.seg)
    /\ getattr(meta.seg, "source_str") = <<"SQ", "NL">>
    /\ getattr(meta.seg, "block_type") = <<"BS">>
    /\ LastSuffix = <<"[Type: ", "SQ", "BS", "BS", "SQ", ", Raw: ",
                      "DQ", "SQ", "BS", "n", "DQ", "]">>


\* the attribute values of the live segment
C14_Attributes ==
    meta.seg # NoSeg =>
        /\ getattr(meta.seg, "is_meta") = TRUE
        /\ meta.seg.cls = "Indent" =>
              /\ getattr(meta.seg, "indent_val") = 1
              /\ getattr(meta.seg, "type") = "indent"
              /\ getattr(meta.seg, "raw") = EmptyStr
        /\ meta.seg.cls = "Dedent" =>
              /\ getattr(meta.seg, "indent_val") = -1
              /\ getattr(meta.seg, "type") = "dedent"
              /\ getattr(meta.seg, "raw") = EmptyStr
        /\ meta.seg.cls = "TemplateSegment" =>
              /\ getattr(meta.seg, "indent_val") = 0
              /\ getattr(meta.seg, "type") = "placeholder"
        /\ meta.seg.cls = "Indent" <=> getattr(meta.seg, "indent_val") > 0
        /\ meta.seg.cls = "Dedent" <=> getattr(meta.seg, "indent_val") < 0

\* C14: an Indent has is_meta true, indent_val +1, type "indent" and empty
\* text; a Dedent has is_meta true, indent_val -1, type "dedent" and empty
\* text; a TemplateSegment has is_meta true, indent_val 0 and type
\* "placeholder"; no call on a segment changes it while it lives, and the
\* sign of indent_val tells Indent from Dedent.
C14_AttributesFixed ==
    /\ []C14_Attributes
    /\ [][(meta.seg # NoSeg /\ meta'.seg # NoSeg) => meta'.seg = meta.seg]_vars

\* a Dedent that has been asked for its suffix
C14_Witness ==
    /\ meta.seg # NoSeg
    /\ meta.seg.cls = "Dedent"
    /\ meta.out.op = "_suffix"
    /\ getattr(meta.seg, "indent_val") = -1
    /\ getattr(meta.seg, "type") = "dedent"

\* C15: match called on MetaSegment, Indent, Dedent or TemplateSegment,
\* with any segments, raises NotImplementedError naming the class and
\* returns nothing, so never a match result.
C15_MatchAlwaysRaises ==
    meta.out.op = "match" =>
        /\ meta.out.cls \in MetaClasses
        /\ meta.out.value = None
        /\ meta.out.raised # None
        /\ LET e == CHOOSE x \in meta.out.raised : TRUE
           IN  e.type = "NotImplementedError" /\ e.msg.arg = meta.out.cls

\* match was called through a TemplateSegment with two segments
C15_Witness ==
    /\ meta.out.op = "match"
    /\ meta.out.cls = "TemplateSegment"
    /\ IsPlaceholder(meta.seg)
    /\ meta.out.args = <<"segment", "segment">>
    /\ meta.out.raised # None


\* C21: nothing the MultiProcess runner sends to a worker holds the
\* formatter: every work unit it builds, and so every unit queued for or
\* held by a worker, has None in the formatter position of its partial, and
\* the initializer receives the configuration only; every work unit the
\* Sequential runner builds holds the linter's formatter.
C21_FormatterStaysInController ==
    /\ runner = "MultiProcess" =>
          /\ \A k \in DOMAIN built : built[k].partial.formatter = None
          /\ \A u \in HeldUnits : u.partial.formatter = None
          /\ \A w \in DOMAIN workers :
                workers[w].config \subseteq {"runner_config"}
    /\ runner = "Sequential" =>
          \A k \in DOMAIN built : built[k].partial.formatter = linter_formatter

\* a MultiProcess worker holds a unit while the linter has a formatter
C21_Witness ==
    /\ runner = "MultiProcess"
    /\ linter_formatter # None
    /\ Len(built) >= 2
    /\ \E w \in DOMAIN workers :
          /\ workers[w].state = "busy"
          /\ workers[w].task.kind = "apply"
          /\ workers[w].task.pt.partial.formatter = None


\* the result the loop of ParallelRunner.run holds between dispatching it
\* to the formatter and yielding it
Pending == IF cur = NoItem THEN << >> ELSE <<cur>>

\* C22: in the parallel runners with a formatter, the results given to the
\* formatter are, in order and once each, the results yielded so far plus
\* the one collected and about to be yielded, each with its own path and
\* with only_fixable equal to fix; no DelayedException is among them;
\* without a formatter nothing is given to it.
C22_ReportedAsCollected ==
    IsParallel =>
        /\ linter_formatter # None =>
              /\ Len(reported) = Len(yielded) + Len(Pending)
              /\ \A k \in DOMAIN reported :
                    /\ reported[k].result = (yielded \o Pending)[k]
                    /\ reported[k].path = reported[k].result.path
                    /\ reported[k].only_fixable = fix
                    /\ reported[k].result.kind = "result"
                    /\ \A j \in DOMAIN reported :
                          j # k => reported[j].path # reported[k].path
        /\ linter_formatter = None => reported = << >>

\* the second result has been given to the formatter and is not yet
\* yielded, while the last file is not even rendered
C22_Witness ==
    /\ IsParallel
    /\ linter_formatter # None
    /\ fix
    /\ pc = "reported"
    /\ Len(yielded) = 1
    /\ Len(reported) = 2
    /\ nextRender <= NumFiles


\* a run that has ended has no running pool
C23_NoPoolAfterRun ==
    /\ pc = "done" => pool # "running"
    /\ (pc = "done" /\ IsParallel /\ outcome \in {"returned", "closed"}) =>
          pool = "terminated"
    /\ pool # "none" => IsParallel

\* a pool is created once, by a parallel runner, and once terminated stays so
C23_PoolLifeCycle ==
    pool' # pool =>
        \/ pool = "none" /\ pool' = "running" /\ IsParallel
        \/ pool = "running" /\ pool' = "terminated"

\* no worker takes a task
C23_NoUnitStarted ==
    \A w \in DOMAIN workers :
        workers'[w].state = "busy" => workers'[w] = workers[w]

\* C23 as stated: when run has ended for whatever reason its pool has been
\* terminated, and after that no unit is executed; a pool is created at
\* most once per run and only by the parallel runners.
C23_NothingRunsAfterRun ==
    /\ []C23_NoPoolAfterRun
    /\ [][C23_PoolLifeCycle]_vars
    /\ [][pool = "terminated" => (C23_NoUnitStarted /\ execs' = execs)]_vars

\* C23 amended: when run has ended for whatever reason its pool has been
\* terminated; after that no worker starts a unit and nothing more is
\* collected, and in the MultiProcess runner no unit executes; in the
\* MultiThread runner a unit that was executing when the pool was
\* terminated runs to its end in its thread and its outcome is dropped. A
\* pool is created at most once per run and only by the parallel runners.
C23_NothingStartsAfterRun ==
    /\ []C23_NoPoolAfterRun
    /\ [][C23_PoolLifeCycle]_vars
    /\ [][pool = "terminated" =>
            /\ C23_NoUnitStarted
            /\ outq' = outq /\ yielded' = yielded /\ reported' = reported
            /\ runner = "MultiProcess" => execs' = execs]_vars

\* the caller closed the result stream early, the pool was terminated, and
\* a thread that was executing a unit has since finished it
C23_Witness ==
    /\ runner = "MultiThread"
    /\ pc = "done"
    /\ outcome = "closed"
    /\ pool = "terminated"
    /\ \E w \in DOMAIN workers : workers[w].state = "exited"
    /\ \E f \in Files : execs[f] # << >> /\ f \notin YieldedPaths

====
